---- MODULE Spec2Model ----
(***************************************************************************)
(* PendulumTwoCycle (src/scenes/test1.py): two small-angle pendulums on    *)
(* one pivot, integrated by Euler-Cromer sub-steps inside the per-frame    *)
(* updater `evolve`, with an elastic collision applied at the bottom.      *)
(*                                                                         *)
(* Numbers.  The program computes in floating point.  Here the pure        *)
(* functions (collide, the kinetic-energy shares) are computed in exact    *)
(* rational arithmetic, a rational being a reduced pair <<n, d>>, d > 0.   *)
(* The stored state lies on two grids, and every assignment to it rounds   *)
(* to the nearest grid point (the model's counterpart of float rounding):  *)
(*   angles and angular velocities: integers in units of 1/Q rad(/s);      *)
(*   times (dt, h, t, cooldown)   : integers in units of 1/TU s.           *)
(* Host frame deltas are taken from sets for which h = dt*speed/steps is   *)
(* a whole number of time units, so time arithmetic is exact.              *)
(***************************************************************************)
EXTENDS Integers, Sequences, FiniteSets, TLC

VARIABLES
    state,      \* the closure dict `state`: theta1, theta2, omega1, omega2, t, collide_cooldown
    frames,     \* the active invocations of evolve, outermost first (locals and position)
    ticks,      \* number of evolve calls the host made from its own frame loop
    raised,     \* "none", or the exception that left evolve and ended the render
    flashes,    \* number of flash_hit() calls made so far
    sinceHit,   \* history: sum of the sub-step sizes h run since the last collision fired
    last,       \* history: the evolve call that returned most recently
    shown,      \* the angles the rods and bobs were last placed at
    bars,       \* the two bar heights (kinetic-energy shares) last set
    arg,        \* inputs of the pure function under check (SpecCollide)
    res         \* its result

vars == <<state, frames, ticks, raised, flashes, sinceHit, last, shown, bars, arg, res>>

-----------------------------------------------------------------------------
(* Bounds of the exploration *)

MaxTicks == 2        \* host frames per behaviour
MaxDepth == 2        \* nesting depth of evolve (1 = no evolve inside self.play)
MaxPlayFrames == 1   \* frames the render loop runs inside one self.play
MaxMass == 3         \* masses 1..MaxMass in SpecCollide
MaxV == 3            \* velocity numerators -MaxV..MaxV in SpecCollide
MaxDen == 2          \* velocity denominators 1..MaxDen in SpecCollide
MaxCollisions == 3   \* collisions followed in SpecCycle
MaxOm == 5           \* angular velocities -MaxOm..MaxOm (in 1e-7 rad/s) in SpecBars

-----------------------------------------------------------------------------
(* Arithmetic *)

Abs(x) == IF x < 0 THEN -x ELSE x

Max(a, b) == IF a >= b THEN a ELSE b

RECURSIVE GCD(_, _)
GCD(a, b) == IF b = 0 THEN a ELSE GCD(b, a % b)

\* n/d rounded to the nearest integer (d > 0)
Round(n, d) == (2 * n + d) \div (2 * d)

\* slip: int() alone, which drops the fraction instead of rounding up
Ceil_Trunc(n, d) == n \div d

\* np.ceil(n/d) as an integer (d > 0)
Ceil(n, d) == -((-n) \div d)

\* the rational n/d in lowest terms with a positive denominator
Rat(n, d) ==
    LET s == IF d < 0 THEN -1 ELSE 1
        k == GCD(Abs(n), Abs(d))
    IN  <<(s * n) \div k, (s * d) \div k>>

RAdd(a, b) ==
    LET k == GCD(a[2], b[2])
    IN  Rat(a[1] * (b[2] \div k) + b[1] * (a[2] \div k), (a[2] \div k) * b[2])

RMul(a, b) ==
    LET k1 == GCD(Abs(a[1]), b[2])
        k2 == GCD(Abs(b[1]), a[2])
    IN  Rat((a[1] \div k1) * (b[1] \div k2), (a[2] \div k2) * (b[2] \div k1))

\* grid of the angles and angular velocities, and of the times
Q == 216 * 100
TU == 12 * 1000

FromGrid(x) == Rat(x, Q)

ToGrid(r) ==
    LET k == GCD(Q, r[2])
    IN  Round(r[1] * (Q \div k), r[2] \div k)

ToTime(r) ==
    LET k == GCD(TU, r[2])
    IN  Round(r[1] * (TU \div k), r[2] \div k)

-----------------------------------------------------------------------------
(* Physical parameters and tuning constants of construct() *)

g == Rat(98, 10)
l == 3
m1 == 2
m2 == 1
u == 1
eps == Rat(2, 100)
internal_dt == Rat(1, 240)
speed == 1
cooldown == Rat(8, 100)

\* the host: manim plays wait(4*T/2) at its frame rate, one evolve call per
\* frame with dt = 1/frame_rate; T = 2*pi/sqrt(g/l) = 3.476 s, so the wait
\* lasts int(2*T*frame_rate) = 417 frames
frame_rate == 60
RunFrames == 417

\* frame deltas the host may pass, in time units: 0, 1/400 s (below the
\* internal step), 1/100 s (three sub-steps of 1/300 s), 1/60 s, 1/10 s, 2 s
Deltas == {0, 30, 120, 200, 1200, 24000}

FrameDt == TU \div frame_rate

-----------------------------------------------------------------------------
(* The elastic collision *)

\* slip: the sign of the second body's own term is lost
collideM_SignSlip(ma, mb, om1, om2) ==
    LET v1 == om1
        v2 == om2
        v1p == RAdd(RMul(Rat(ma - mb, ma + mb), v1), RMul(Rat(2 * mb, ma + mb), v2))
        v2p == RAdd(RMul(Rat(2 * ma, ma + mb), v1), RMul(Rat(ma - mb, ma + mb), v2))
    IN  <<v1p, v2p>>

\* slip: the factor 2 of the cross terms is dropped
collideM_NoFactor2(ma, mb, om1, om2) ==
    LET v1 == om1
        v2 == om2
        v1p == RAdd(RMul(Rat(ma - mb, ma + mb), v1), RMul(Rat(mb, ma + mb), v2))
        v2p == RAdd(RMul(Rat(ma, ma + mb), v1), RMul(Rat(mb - ma, ma + mb), v2))
    IN  <<v1p, v2p>>

\* slip: both cross terms carry the second body's mass
collideM_SameCross(ma, mb, om1, om2) ==
    LET v1 == om1
        v2 == om2
        v1p == RAdd(RMul(Rat(ma - mb, ma + mb), v1), RMul(Rat(2 * mb, ma + mb), v2))
        v2p == RAdd(RMul(Rat(2 * mb, ma + mb), v1), RMul(Rat(mb - ma, ma + mb), v2))
    IN  <<v1p, v2p>>

collideM(ma, mb, om1, om2) ==
    LET v1 == om1
        v2 == om2
        v1p == RAdd(RMul(Rat(ma - mb, ma + mb), v1), RMul(Rat(2 * mb, ma + mb), v2))
        v2p == RAdd(RMul(Rat(2 * ma, ma + mb), v1), RMul(Rat(mb - ma, ma + mb), v2))
    IN  <<v1p, v2p>>

collide(om1, om2) == collideM(m1, m2, om1, om2)

-----------------------------------------------------------------------------
(* Presentation: what evolve pushes to the shapes *)

place_rods_and_bobs(s) == <<s.theta1, s.theta2>>

\* 1e-12 on the grid of the kinetic energies, whose unit is 1/(2*Q*Q)
TinyK == ((2 * Q * Q) \div 1000000) \div 1000000

Clip01(r) == IF r[1] < 0 THEN Rat(0, 1) ELSE IF r[1] > r[2] THEN Rat(1, 1) ELSE r

\* twice the kinetic energy 0.5*m*l^2*omega^2, in squared grid units
K(m, omega) == m * l * l * omega * omega

\* slip: only an energy of exactly zero is guarded
Shares_ZeroOnly(K1, K2, tiny) ==
    LET total == K1 + K2
    IN  IF total <= 0
        THEN <<Rat(0, 1), Rat(0, 1)>>
        ELSE <<Clip01(Rat(K1, total)), Clip01(Rat(K2, total))>>

\* h1, h2 of update_bars
Shares(K1, K2, tiny) ==
    LET total == K1 + K2
    IN  IF total <= tiny
        THEN <<Rat(0, 1), Rat(0, 1)>>
        ELSE <<Clip01(Rat(K1, total)), Clip01(Rat(K2, total))>>

update_bars(s) == Shares(K(m1, s.omega1), K(m2, s.omega2), TinyK)

-----------------------------------------------------------------------------
(* One sub-step of evolve *)

\* -(g/l) * theta * h, on the grid
Restoring(theta, h) == Round(-(g[1] * theta * h), g[2] * l * TU)

\* omega * h, on the grid
Advance(omega, h) == Round(omega * h, TU)

\* slip: explicit Euler, the angle advances with the velocity before its update
Integrate_Explicit(s, h) ==
    LET om1 == s.omega1 + Restoring(s.theta1, h)
        om2 == s.omega2 + Restoring(s.theta2, h)
    IN  [s EXCEPT !.omega1 = om1,
                  !.omega2 = om2,
                  !.theta1 = s.theta1 + Advance(s.omega1, h),
                  !.theta2 = s.theta2 + Advance(s.omega2, h),
                  !.t = s.t + h]

Integrate(s, h) ==
    LET om1 == s.omega1 + Restoring(s.theta1, h)
        om2 == s.omega2 + Restoring(s.theta2, h)
    IN  [s EXCEPT !.omega1 = om1,
                  !.omega2 = om2,
                  !.theta1 = s.theta1 + Advance(om1, h),
                  !.theta2 = s.theta2 + Advance(om2, h),
                  !.t = s.t + h]

\* slip: the countdown is not guarded by `> 0`
Cooldown_Unguarded(c, h) == c - h

Cooldown(c, h) == IF c > 0 THEN c - h ELSE c

near_zero(s) == Abs(s.theta1) < ToGrid(eps) /\ Abs(s.theta2) < ToGrid(eps)

crossing(prev1, prev2, s) == prev1 * s.theta1 <= 0 /\ prev2 * s.theta2 <= 0

\* slip: one body crossing is taken for a simultaneous crossing
Fires_EitherCrossing(prev1, prev2, s) ==
    /\ near_zero(s)
    /\ prev1 * s.theta1 <= 0 \/ prev2 * s.theta2 <= 0
    /\ s.collide_cooldown <= 0

\* slip: the cooldown gate is left out
Fires_NoCooldown(prev1, prev2, s) == near_zero(s) /\ crossing(prev1, prev2, s)

Fires(prev1, prev2, s) ==
    near_zero(s) /\ crossing(prev1, prev2, s) /\ s.collide_cooldown <= 0

\* slip: the collision also puts both bodies at the bottom
Resolve_Snap(s) ==
    LET c == collide(FromGrid(s.omega1), FromGrid(s.omega2))
    IN  [s EXCEPT !.omega1 = ToGrid(c[1]),
                  !.omega2 = ToGrid(c[2]),
                  !.theta1 = 0,
                  !.theta2 = 0,
                  !.collide_cooldown = ToTime(cooldown)]

Resolve(s) ==
    LET c == collide(FromGrid(s.omega1), FromGrid(s.omega2))
    IN  [s EXCEPT !.omega1 = ToGrid(c[1]),
                  !.omega2 = ToGrid(c[2]),
                  !.collide_cooldown = ToTime(cooldown)]

-----------------------------------------------------------------------------
(* Initial state: construct() up to self.wait *)

NoCall == [valid |-> FALSE, dt |-> 0, steps |-> 0, h |-> 0, ran |-> 0, adv |-> 0,
           fired |-> 0, entry |-> <<>>, exit |-> <<>>]

state0 ==
    LET c == collide(Rat(u, l), Rat(0, 1))
    IN  [theta1 |-> 0, theta2 |-> 0,
         omega1 |-> ToGrid(c[1]), omega2 |-> ToGrid(c[2]),
         t |-> 0, collide_cooldown |-> 0]

InitScene ==
    /\ state = state0
    /\ frames = <<>>
    /\ ticks = 0
    /\ raised = "none"
    /\ flashes = 0
    /\ sinceHit = 0
    /\ last = NoCall
    /\ shown = place_rods_and_bobs(state0)
    /\ bars = update_bars(state0)

Init == InitScene /\ arg = <<>> /\ res = <<>>

-----------------------------------------------------------------------------
(* evolve(mob, dt) *)

Top == frames[Len(frames)]

Steps(dt) == Max(1, Ceil(dt * speed * internal_dt[2], internal_dt[1] * TU))

StepSize(dt) == (dt * speed) \div Steps(dt)

\* entry of evolve: steps and h are computed, the loop has not run yet
Frame(dt) ==
    [dt |-> dt, steps |-> Steps(dt), h |-> StepSize(dt), k |-> 0,
     prev1 |-> 0, prev2 |-> 0, pc |-> "loop", played |-> 0,
     adv |-> 0, flashes0 |-> flashes, entry |-> state]

Enter(dt) ==
    /\ frames' = Append(frames, Frame(dt))
    /\ UNCHANGED <<state, raised, flashes, sinceHit, last, shown, bars, arg, res>>

\* the host's frame loop calls the updater
HostTick ==
    /\ raised = "none"
    /\ frames = <<>>
    /\ ticks < MaxTicks
    /\ \E dt \in Deltas : Enter(dt)
    /\ ticks' = ticks + 1

\* one iteration of the loop body
SubStep ==
    /\ raised = "none"
    /\ frames # <<>>
    /\ Top.pc = "loop"
    /\ Top.k < Top.steps
    /\ LET f == Top
           s1 == Integrate(state, f.h)
           s2 == [s1 EXCEPT !.collide_cooldown = Cooldown(@, f.h)]
           hit == Fires(state.theta1, state.theta2, s2)
       IN  /\ state' = IF hit THEN Resolve(s2) ELSE s2
           /\ frames' = [frames EXCEPT ![Len(frames)] =
                            [f EXCEPT !.k = f.k + 1,
                                      !.prev1 = state.theta1,
                                      !.prev2 = state.theta2,
                                      !.adv = f.adv + f.h,
                                      !.played = 0,
                                      !.pc = IF hit THEN "play" ELSE "loop"]]
           /\ flashes' = IF hit THEN flashes + 1 ELSE flashes
           /\ sinceHit' = IF hit THEN 0 ELSE sinceHit + f.h
    /\ UNCHANGED <<ticks, raised, last, shown, bars, arg, res>>

\* flash_hit is inside self.play: the render loop runs a frame of the fade
\* and calls the scene's updaters, evolve among them
Nested(dt) ==
    /\ raised = "none"
    /\ frames # <<>>
    /\ Top.pc = "play"
    /\ Top.played < MaxPlayFrames
    /\ Len(frames) < MaxDepth
    /\ frames' = Append([frames EXCEPT ![Len(frames)].played = @ + 1], Frame(dt))
    /\ UNCHANGED <<state, ticks, raised, flashes, sinceHit, last, shown, bars, arg, res>>

PlayFrame == \E dt \in Deltas : Nested(dt)

\* self.play returns: the loop goes on
PlayReturn ==
    /\ raised = "none"
    /\ frames # <<>>
    /\ Top.pc = "play"
    /\ frames' = [frames EXCEPT ![Len(frames)].pc = "loop"]
    /\ UNCHANGED <<state, ticks, raised, flashes, sinceHit, last, shown, bars, arg, res>>

\* self.play raises: the exception leaves every active evolve
PlayRaise ==
    /\ raised = "none"
    /\ frames # <<>>
    /\ Top.pc = "play"
    /\ frames' = <<>>
    /\ raised' = "play"
    /\ UNCHANGED <<state, ticks, flashes, sinceHit, last, shown, bars, arg, res>>

\* the loop is over: shapes and bars are updated and evolve returns
Finish ==
    /\ raised = "none"
    /\ frames # <<>>
    /\ Top.pc = "loop"
    /\ Top.k = Top.steps
    /\ shown' = place_rods_and_bobs(state)
    /\ bars' = update_bars(state)
    /\ last' = [valid |-> TRUE, dt |-> Top.dt, steps |-> Top.steps, h |-> Top.h,
                ran |-> Top.k, adv |-> Top.adv, fired |-> flashes - Top.flashes0,
                entry |-> Top.entry, exit |-> state]
    /\ frames' = SubSeq(frames, 1, Len(frames) - 1)
    /\ UNCHANGED <<state, ticks, raised, flashes, sinceHit, arg, res>>

Next ==
    \/ HostTick
    \/ SubStep
    \/ PlayFrame
    \/ PlayReturn
    \/ PlayRaise
    \/ Finish

\* the host keeps to the tick interface: finite, non-negative deltas
Spec == Init /\ [][Next]_vars

-----------------------------------------------------------------------------
(* A host that also passes malformed deltas *)

\* -1/60 s
NegDeltas == {-200}

NonFinite == {"inf", "nan"}

HostTickNegative ==
    /\ raised = "none"
    /\ frames = <<>>
    /\ ticks < MaxTicks
    /\ \E dt \in NegDeltas : Enter(dt)
    /\ ticks' = ticks + 1

\* int(np.ceil(dt * speed / internal_dt)) raises before the state is touched
HostTickNonFinite ==
    /\ raised = "none"
    /\ frames = <<>>
    /\ ticks < MaxTicks
    /\ \E x \in NonFinite :
          raised' = IF x = "inf" THEN "OverflowError" ELSE "ValueError"
    /\ ticks' = ticks + 1
    /\ UNCHANGED <<state, frames, flashes, sinceHit, last, shown, bars, arg, res>>

NextMalformed ==
    \/ HostTick
    \/ HostTickNegative
    \/ HostTickNonFinite
    \/ SubStep
    \/ PlayFrame
    \/ PlayReturn
    \/ PlayRaise
    \/ Finish

SpecMalformed == Init /\ [][NextMalformed]_vars

-----------------------------------------------------------------------------
(* The scene as played: self.wait(4 * T / 2) at the host's frame rate *)

RunTick ==
    /\ raised = "none"
    /\ frames = <<>>
    /\ ticks < RunFrames
    /\ Enter(FrameDt)
    /\ ticks' = ticks + 1

RunPlayFrame == Nested(FrameDt)

NextRun ==
    \/ RunTick
    \/ SubStep
    \/ RunPlayFrame
    \/ PlayReturn
    \/ PlayRaise
    \/ Finish

SpecRun == Init /\ [][NextRun]_vars

RunDone == ticks = RunFrames /\ frames = <<>> /\ raised = "none"

-----------------------------------------------------------------------------
(* collide as a pure function, over bounded masses and velocities *)

Velocities == {Rat(n, d) : n \in -MaxV..MaxV, d \in 1..MaxDen}

InitCollide ==
    /\ InitScene
    /\ arg \in [ma : 1..MaxMass, mb : 1..MaxMass, v1 : Velocities, v2 : Velocities]
    /\ res = <<>>

ApplyCollide ==
    /\ res = <<>>
    /\ res' = collideM(arg.ma, arg.mb, arg.v1, arg.v2)
    /\ UNCHANGED <<state, frames, ticks, raised, flashes, sinceHit, last, shown, bars, arg>>

NextCollide == ApplyCollide

SpecCollide == InitCollide /\ [][NextCollide]_vars

-----------------------------------------------------------------------------
(* Properties *)

\* this step is one iteration of the loop body of the innermost evolve
IsSubStep ==
    /\ frames # <<>>
    /\ Len(frames') = Len(frames)
    /\ frames'[Len(frames)].k = Top.k + 1

\* this step fired a collision event
FiredNow == flashes' = flashes + 1

\* C1: a tick with elapsed delta 0 returns with theta1, theta2, omega1,
\* omega2, simTime and collisionCooldown as they were at its entry, and
\* fires no collision event.
C1_TickZeroNoOp ==
    (last.valid /\ last.dt = 0) => (last.exit = last.entry /\ last.fired = 0)

\* C2: in every sub-step the Resolver is applied (velocities replaced by
\* collide of the integrated velocities, cooldown set to 0.08, flash emitted)
\* if and only if both angles are below eps in magnitude, each angle's product
\* with its value before the sub-step is <= 0, and the cooldown, after this
\* sub-step's decrement, is <= 0; otherwise the integrated velocities are
\* kept and no flash is emitted.
C2_FiresIffGates ==
    [][IsSubStep =>
        LET h == Top.h
            cd == IF state.collide_cooldown > 0
                  THEN state.collide_cooldown - h
                  ELSE state.collide_cooldown
            free == Integrate(state, h)
            hitOm == collide(FromGrid(free.omega1), FromGrid(free.omega2))
            proximity == /\ Abs(state'.theta1) * eps[2] < eps[1] * Q
                         /\ Abs(state'.theta2) * eps[2] < eps[1] * Q
            signChange == /\ state.theta1 * state'.theta1 <= 0
                          /\ state.theta2 * state'.theta2 <= 0
        IN  /\ flashes' \in {flashes, flashes + 1}
            /\ FiredNow <=> (proximity /\ signChange /\ cd <= 0)
            /\ FiredNow =>
                  /\ state'.omega1 = ToGrid(hitOm[1])
                  /\ state'.omega2 = ToGrid(hitOm[2])
                  /\ state'.collide_cooldown * cooldown[2] = cooldown[1] * TU
            /\ ~FiredNow =>
                  /\ state'.omega1 = free.omega1
                  /\ state'.omega2 = free.omega2
                  /\ state'.collide_cooldown = cd
    ]_vars

\* a collision has just fired in a sub-step in which body 1 truly changed sign
C2_Witness ==
    /\ frames # <<>>
    /\ Top.pc = "play"
    /\ Top.prev1 * state.theta1 < 0

\* C3: the t=0 collision is applied once, at initialisation: while the first
\* tick runs its first sub-steps (the bodies leaving the bottom for the first
\* time) no collision event fires.
C3_AppliedOnce ==
    (ticks = 1 /\ state.t <= FrameDt) => flashes = 0

\* C4: a collision event that follows an earlier one fires only when the
\* sub-step sizes accumulated since that earlier firing, this sub-step's
\* included, sum to at least the cooldown duration 0.08.
C4_CooldownDebounce ==
    [][(FiredNow /\ flashes >= 1) =>
          (sinceHit + Top.h) * cooldown[2] >= cooldown[1] * TU]_vars

\* after a firing, time has advanced and a sub-step has satisfied the
\* proximity and crossing gates inside the cooldown window without firing
C4_Witness ==
    /\ frames # <<>>
    /\ Top.pc = "loop"
    /\ Top.k >= 1
    /\ flashes = 1
    /\ sinceHit > 0
    /\ state.collide_cooldown > 0
    /\ near_zero(state)
    /\ crossing(Top.prev1, Top.prev2, state)

\* C5: a tick called with a negative delta is not integrated: no sub-step
\* is ever run with a negative h.
C5_MalformedRejected ==
    \A i \in DOMAIN frames : frames[i].k > 0 => frames[i].h >= 0

\* C6 (as stated): collisionCooldown is never below 0.
C6_NonNegative == state.collide_cooldown >= 0

\* C6 (amended): collisionCooldown is not clamped at 0; it stays above
\* minus one internal step and never exceeds the cooldown duration.
C6_AboveMinusStep ==
    /\ state.collide_cooldown * internal_dt[2] > -(internal_dt[1] * TU)
    /\ state.collide_cooldown * cooldown[2] <= cooldown[1] * TU

\* the countdown has ended below zero
C6_Witness == state.collide_cooldown < 0 /\ flashes >= 1

\* n = max(1, ceil(speed * dt / internal_dt)), stated without ceil
IsStepCount(dt, n) ==
    /\ n >= 1
    /\ n * internal_dt[1] * TU >= speed * dt * internal_dt[2]
    /\ n = 1 \/ (n - 1) * internal_dt[1] * TU < speed * dt * internal_dt[2]

\* C8: a tick with delta >= 0 runs its loop body exactly
\* steps = max(1, ceil(speed*delta/internalStep)) times, each with the same
\* h = speed*delta/steps <= internalStep, its sub-steps adding up to
\* speed*delta.
C8_SubdivisionExact ==
    /\ \A i \in DOMAIN frames :
          LET f == frames[i]
          IN  f.dt >= 0 =>
                 /\ IsStepCount(f.dt, f.steps)
                 /\ f.steps * f.h = speed * f.dt
                 /\ f.h * internal_dt[2] <= internal_dt[1] * TU
                 /\ f.k <= f.steps
                 /\ f.adv = f.k * f.h
    /\ (last.valid /\ last.dt >= 0) =>
          /\ IsStepCount(last.dt, last.steps)
          /\ last.ran = last.steps
          /\ last.adv = speed * last.dt
          /\ last.h * internal_dt[2] <= internal_dt[1] * TU

\* a tick whose delta is no multiple of the internal step has returned
C8_Witness ==
    /\ last.valid
    /\ last.steps >= 3
    /\ last.h * internal_dt[2] < internal_dt[1] * TU

\* C9: no tick begins while another tick is inside its sub-step loop.
C9_TickAtomic == Len(frames) <= 1

\* C10: played at a fixed frame rate over the two periods of the scene, the
\* sub-step loop detects exactly two collision events.
C10_ExactlyTwo == RunDone => flashes = 2

-----------------------------------------------------------------------------
(* collide as a pure function: conservation *)

RInt(n) == Rat(n, 1)

Momentum(ma, mb, v1, v2) == RAdd(RMul(RInt(ma), v1), RMul(RInt(mb), v2))

\* twice the kinetic energy
Energy2(ma, mb, v1, v2) ==
    RAdd(RMul(RInt(ma), RMul(v1, v1)), RMul(RInt(mb), RMul(v2, v2)))

\* C7: collide preserves m1*v1 + m2*v2 and m1*v1^2 + m2*v2^2, for all
\* velocities and positive masses.
C7_Elastic ==
    res # <<>> =>
        /\ Momentum(arg.ma, arg.mb, res[1], res[2])
              = Momentum(arg.ma, arg.mb, arg.v1, arg.v2)
        /\ Energy2(arg.ma, arg.mb, res[1], res[2])
              = Energy2(arg.ma, arg.mb, arg.v1, arg.v2)

\* the scene's masses, with velocities that the collision changes
C7_Witness ==
    /\ res # <<>>
    /\ arg.ma = m1
    /\ arg.mb = m2
    /\ res # <<arg.v1, arg.v2>>

-----------------------------------------------------------------------------
(* Properties of the clock and of the flash *)

\* C11: simTime never decreases: its value after any step is at least its
\* value before it, whatever deltas the host passes.
C11_SimTimeMonotone == [][state'.t >= state.t]_vars

\* C12: a failure of the flash never ends the simulation: no exception of
\* flash_hit leaves evolve, so the tick goes on with its remaining sub-steps.
C12_FlashFailureAbsorbed == raised # "play"

-----------------------------------------------------------------------------
(* The two-collision cycle: masses 2m and m, the free half-period swing *)
(* between two bottom collisions taken as the negation of both velocities *)

HalfSwing(w) == <<Rat(-w[1][1], w[1][2]), Rat(-w[2][1], w[2][2])>>

\* arg: the masses and the velocities just before the first collision;
\* res: the velocities now, those right after the first collision, the number
\* of collisions so far, and whether the pendulums are back at the bottom
InitCycle ==
    /\ InitScene
    /\ \E m \in 1..MaxMass : \E v1 \in Velocities, v2 \in Velocities :
          arg = [ma |-> 2 * m, mb |-> m, v1 |-> v1, v2 |-> v2]
    /\ res = [w |-> <<arg.v1, arg.v2>>, first |-> <<>>, n |-> 0, bottom |-> TRUE]

CycleCollide ==
    /\ res.bottom
    /\ res.n < MaxCollisions
    /\ LET w == collideM(arg.ma, arg.mb, res.w[1], res.w[2])
       IN  res' = [w |-> w,
                   first |-> IF res.n = 0 THEN w ELSE res.first,
                   n |-> res.n + 1,
                   bottom |-> FALSE]
    /\ UNCHANGED <<state, frames, ticks, raised, flashes, sinceHit, last, shown, bars, arg>>

CycleSwing ==
    /\ ~res.bottom
    /\ res.n < MaxCollisions
    /\ res' = [res EXCEPT !.w = HalfSwing(@), !.bottom = TRUE]
    /\ UNCHANGED <<state, frames, ticks, raised, flashes, sinceHit, last, shown, bars, arg>>

NextCycle == CycleCollide \/ CycleSwing

SpecCycle == InitCycle /\ [][NextCycle]_vars

\* C13: with masses 2m and m and swings that negate both velocities, two
\* collisions after the first one the pair (omega1, omega2) is again the pair
\* that held right after the first collision; one collision after it, it is
\* not (unless the total momentum is zero).
C13_TwoCycleReturn ==
    (res.n >= 1 /\ ~res.bottom) =>
        /\ res.n % 2 = 1 => res.w = res.first
        /\ (res.n % 2 = 0 /\ Momentum(arg.ma, arg.mb, arg.v1, arg.v2)[1] # 0)
              => res.w # res.first

\* the scene's masses and its tangential velocities (u, 0) before the first
\* collision, two collisions after the first
C13_Witness ==
    /\ arg.ma = m1
    /\ arg.mb = m2
    /\ arg.v1 = Rat(u, 1)
    /\ arg.v2 = Rat(0, 1)
    /\ res.n = 3
    /\ res.w = res.first
    /\ res.w = <<Rat(1, 3), Rat(4, 3)>>

-----------------------------------------------------------------------------
(* Two schedules of ticks with the same total, run from the same state *)

SplitDeltas == {0, 200, 400, 1200, 6000, 12000, 24000}

\* one iteration of the loop of evolve on r = [s: state, n: collisions so far];
\* self.play returns without the host calling evolve in between
evolveStep(r, h) ==
    LET s1 == Integrate(r.s, h)
        s2 == [s1 EXCEPT !.collide_cooldown = Cooldown(@, h)]
        hit == Fires(r.s.theta1, r.s.theta2, s2)
    IN  [s |-> IF hit THEN Resolve(s2) ELSE s2, n |-> IF hit THEN r.n + 1 ELSE r.n]

\* k iterations of the loop, as the first k \div 2 followed by the others;
\* the test on half.n makes TLC evaluate the first half before the second
RECURSIVE evolveLoop(_, _, _)
evolveLoop(r, h, k) ==
    IF k = 0 THEN r
    ELSE IF k = 1 THEN evolveStep(r, h)
    ELSE LET half == evolveLoop(r, h, k \div 2)
         IN  IF half.n >= r.n THEN evolveLoop(half, h, k - (k \div 2)) ELSE half

evolve(s, dt) == evolveLoop([s |-> s, n |-> 0], StepSize(dt), Steps(dt))

\* arg: schedule a makes two ticks, schedule b one tick of the same total;
\* res: for each, the state it has reached, the collisions it has fired and
\* the ticks it has made
InitSplit ==
    /\ InitScene
    /\ \E a \in [1..2 -> SplitDeltas] : arg = [a |-> a, b |-> <<a[1] + a[2]>>]
    /\ res = [sa |-> state0, sb |-> state0, na |-> 0, nb |-> 0, ia |-> 0, ib |-> 0]

SplitTickA ==
    /\ res.ia < Len(arg.a)
    /\ LET r == evolve(res.sa, arg.a[res.ia + 1])
       IN  res' = [res EXCEPT !.sa = r.s, !.na = @ + r.n, !.ia = @ + 1]
    /\ UNCHANGED <<state, frames, ticks, raised, flashes, sinceHit, last, shown, bars, arg>>

SplitTickB ==
    /\ res.ia = Len(arg.a)
    /\ res.ib < Len(arg.b)
    /\ LET r == evolve(res.sb, arg.b[res.ib + 1])
       IN  res' = [res EXCEPT !.sb = r.s, !.nb = @ + r.n, !.ib = @ + 1]
    /\ UNCHANGED <<state, frames, ticks, raised, flashes, sinceHit, last, shown, bars, arg>>

NextSplit == SplitTickA \/ SplitTickB

SpecSplit == InitSplit /\ [][NextSplit]_vars

\* C14: two schedules of ticks with the same total elapsed time, run from
\* the same initial state with the same internal step, have fired the same
\* number of collisions when both are finished.
C14_SameCollisionCount ==
    (res.ia = Len(arg.a) /\ res.ib = Len(arg.b)) => res.na = res.nb

-----------------------------------------------------------------------------
(* update_bars as a pure function, for angular velocities around the guard *)

\* angular velocities n / FineQ, and 1e-12 on the grid of their kinetic
\* energies, whose unit is 1/(2*FineQ*FineQ)
FineQ == 10 * 1000000
TinyFine == 2 * (FineQ \div 1000000) * (FineQ \div 1000000)

InitBars ==
    /\ InitScene
    /\ arg \in [omega1 : -MaxOm..MaxOm, omega2 : -MaxOm..MaxOm]
    /\ res = <<>>

ApplyBars ==
    /\ res = <<>>
    /\ res' = Shares(K(m1, arg.omega1), K(m2, arg.omega2), TinyFine)
    /\ UNCHANGED <<state, frames, ticks, raised, flashes, sinceHit, last, shown, bars, arg>>

NextBars == ApplyBars

SpecBars == InitBars /\ [][NextBars]_vars

\* C15: when K1 + K2 is at or below 1e-12 both shares are 0 (nothing is
\* divided); otherwise the shares are K1/(K1+K2) and K2/(K1+K2), each lies in
\* [0, 1] and they sum to 1.
C15_ShareGuard ==
    res # <<>> =>
        LET K1 == K(m1, arg.omega1)
            K2 == K(m2, arg.omega2)
        IN  IF K1 + K2 <= TinyFine
            THEN res = <<Rat(0, 1), Rat(0, 1)>>
            ELSE /\ res[1][1] * (K1 + K2) = K1 * res[1][2]
                 /\ res[2][1] * (K1 + K2) = K2 * res[2][2]
                 /\ \A i \in 1..2 : 0 <= res[i][1] /\ res[i][1] <= res[i][2]
                 /\ RAdd(res[1], res[2]) = Rat(1, 1)

\* a total kinetic energy that is positive but below 1e-12
C15_Witness ==
    /\ res = <<Rat(0, 1), Rat(0, 1)>>
    /\ arg.omega1 # 0
    /\ arg.omega2 # 0

-----------------------------------------------------------------------------
(* Properties of one sub-step *)

\* C16: in every sub-step, for each body on its own, the velocity is updated
\* first from the angle held before the sub-step, omega' = omega - (g/l)*theta*h,
\* and the angle then advances with the updated velocity, theta' = theta +
\* omega'*h; the angle kept as "before" for the crossing gate is theta.
C16_SemiImplicitEuler ==
    [][IsSubStep =>
        LET h == Top.h
            w1 == state.omega1 + Restoring(state.theta1, h)
            w2 == state.omega2 + Restoring(state.theta2, h)
            hitOm == collide(FromGrid(w1), FromGrid(w2))
        IN  /\ state'.theta1 = state.theta1 + Advance(w1, h)
            /\ state'.theta2 = state.theta2 + Advance(w2, h)
            /\ ~FiredNow => state'.omega1 = w1 /\ state'.omega2 = w2
            /\ FiredNow => /\ state'.omega1 = ToGrid(hitOm[1])
                           /\ state'.omega2 = ToGrid(hitOm[2])
            /\ frames'[Len(frames)].prev1 = state.theta1
            /\ frames'[Len(frames)].prev2 = state.theta2
    ]_vars

\* a sub-step without collision has just run in which the angle of body 1
\* moved by the updated velocity, and the velocity before the update would
\* have moved it elsewhere
C16_Witness ==
    /\ frames # <<>>
    /\ Top.k >= 1
    /\ Top.h > 0
    /\ sinceHit > 0
    /\ Top.prev1 # 0
    /\ LET before == state.omega1 - Restoring(Top.prev1, Top.h)
       IN  /\ state.theta1 = Top.prev1 + Advance(state.omega1, Top.h)
           /\ Advance(state.omega1, Top.h) # Advance(before, Top.h)


-----------------------------------------------------------------------------
(* collide as a pure function: involution *)

\* C18: collide applied to its own result gives back the velocities it was
\* first applied to, for all velocities and positive masses.
C18_Involution ==
    res # <<>> => collideM(arg.ma, arg.mb, res[1], res[2]) = <<arg.v1, arg.v2>>

\* unequal masses, both bodies moving, velocities that the collision changes
C18_Witness ==
    /\ res # <<>>
    /\ arg.ma # arg.mb
    /\ arg.v1[1] # 0
    /\ arg.v2[1] # 0
    /\ res # <<arg.v1, arg.v2>>
    /\ collideM(arg.ma, arg.mb, res[1], res[2]) = <<arg.v1, arg.v2>>

====
